---- MODULE Spec2Model ----
(***************************************************************************)
(* FARO_Document (faro/document_metadata.py): construction of a document   *)
(* record from the output of the external parser, the preprocessing of its *)
(* text lines, the resolution of its metadata fields and the ordered view  *)
(* returned by get_metadata_dict.                                          *)
(*                                                                         *)
(* Python values are tagged records: the tag t is the Python type and v    *)
(* the payload.  A Python str is a sequence of atoms; an atom is a TLA+    *)
(* string standing for one character (a digit, a sign, a whitespace        *)
(* character) or for a run of non-whitespace characters ("Hello.").        *)
(* An attribute of self that has not been assigned is Unset.               *)
(* num_words and num_chars (lines 129-135) are computed from file_lines    *)
(* but never returned by get_metadata_dict; they are not modelled.         *)
(***************************************************************************)
EXTENDS Integers, Sequences, FiniteSets, TLC

VARIABLES
    pc,             \* "new", "preprocessed", "done" or "raised"
    exc,            \* the exception that left the constructor, or "none"
    document_path,  \* argument of __init__
    split_lines,    \* argument of __init__
    parse_outcome,  \* what parse_file did: returned a pair, or raised
    raw_file_lines, \* the text handed to _preprocess_file_lines
    join_lines,     \* the flag handed to _preprocess_file_lines
    metadata,       \* the map handed to _get_document_metadata
    detect_call,    \* the call of detect: its argument and what it did
    self            \* the attributes of the FARO_Document

vars == <<pc, exc, document_path, split_lines, parse_outcome, raw_file_lines,
          join_lines, metadata, detect_call, self>>

----------------------------------------------------------------------------
(* Bounds                                                                  *)

MaxKeys == 2
MaxLen == 4

----------------------------------------------------------------------------
(* Python values                                                           *)

None == [t |-> "none"]
Unset == [t |-> "unset"]
PyStr(s) == [t |-> "str", v |-> s]
PyInt(n) == [t |-> "int", v |-> n]
PyBool(b) == [t |-> "bool", v |-> b]
PyList(l) == [t |-> "list", v |-> l]
PyExc(name) == [t |-> "exc", v |-> name]

IsList(x) == x.t = "list"

Whitespace == {" ", "\n", "\t"}
DigitAtoms == <<"0", "1", "2", "3", "4", "5", "6", "7", "8", "9">>

RECURSIVE Digits(_)
Digits(n) ==
    IF n < 10 THEN <<DigitAtoms[n + 1]>>
    ELSE Digits(n \div 10) \o <<DigitAtoms[(n % 10) + 1]>>

\* str(x) for the element types the value sets below contain
str(x) ==
    CASE x.t = "str" -> x
      [] x.t = "int" -> PyStr(IF x.v < 0 THEN <<"-">> \o Digits(-x.v)
                                         ELSE Digits(x.v))
      [] x.t = "bool" -> PyStr(IF x.v THEN <<"True">> ELSE <<"False">>)
      [] x.t = "none" -> PyStr(<<"None">>)

\* s.strip(chars): drop leading and trailing atoms that are in chars
RECURSIVE lstrip(_, _)
lstrip(s, chars) ==
    IF Len(s) > 0 /\ Head(s) \in chars THEN lstrip(Tail(s), chars) ELSE s

RECURSIVE rstrip(_, _)
rstrip(s, chars) ==
    IF Len(s) > 0 /\ s[Len(s)] \in chars
    THEN rstrip(SubSeq(s, 1, Len(s) - 1), chars) ELSE s

strip(s, chars) == rstrip(lstrip(s, chars), chars)

\* s.split(sep): the pieces between the occurrences of sep, always >= 1
RECURSIVE split(_, _)
split(s, sep) ==
    IF \A i \in 1..Len(s) : s[i] # sep THEN <<s>>
    ELSE LET i == CHOOSE j \in 1..Len(s) :
                      s[j] = sep /\ \A k \in 1..(j - 1) : s[k] # sep
         IN <<SubSeq(s, 1, i - 1)>> \o split(SubSeq(s, i + 1, Len(s)), sep)

\* sep.join(lines)
RECURSIVE join(_, _)
join(sep, lines) ==
    IF Len(lines) = 0 THEN <<>>
    ELSE IF Len(lines) = 1 THEN lines[1]
    ELSE lines[1] \o sep \o join(sep, Tail(lines))

DigitValue(a) == (CHOOSE i \in 1..10 : DigitAtoms[i] = a) - 1
IsDigit(a) == \E i \in 1..10 : DigitAtoms[i] = a

RECURSIVE DigitsValue(_)
DigitsValue(s) ==
    IF Len(s) = 0 THEN 0
    ELSE 10 * DigitsValue(SubSeq(s, 1, Len(s) - 1)) + DigitValue(s[Len(s)])

\* int(x): an int as it is, a bool as 0 or 1, a str parsed as an optionally
\* signed decimal numeral between whitespace; anything else raises
int(x) ==
    CASE x.t = "int" -> x
      [] x.t = "bool" -> PyInt(IF x.v THEN 1 ELSE 0)
      [] x.t = "str" ->
            LET s == strip(x.v, Whitespace)
                signed == Len(s) > 0 /\ s[1] \in {"-", "+"}
                body == IF signed THEN Tail(s) ELSE s
            IN IF Len(body) > 0 /\ \A i \in 1..Len(body) : IsDigit(body[i])
               THEN PyInt(IF signed /\ s[1] = "-" THEN -DigitsValue(body)
                                                  ELSE DigitsValue(body))
               ELSE PyExc("ValueError")
      [] OTHER -> PyExc("TypeError")

----------------------------------------------------------------------------
(* _preprocess_file_lines                                                  *)

\* utils.preprocess_text is outside this module; it is taken as the
\* identity on a line
preprocess_text(line) == line

\* "{} {}".format(a, b)
format2(a, b) == a \o <<" ">> \o b

\* one iteration of the loop over file_lines
preprocess_line(new_file_lines, line, joinFlag) ==
    IF ~joinFlag
    THEN IF Len(strip(line, {})) = 0 \/ Len(new_file_lines) = 0
         THEN Append(new_file_lines, preprocess_text(line))
         ELSE [new_file_lines EXCEPT ![Len(new_file_lines)] =
                    format2(new_file_lines[Len(new_file_lines)],
                            preprocess_text(line))]
    ELSE Append(new_file_lines, preprocess_text(line))

RECURSIVE preprocess_loop(_, _, _)
preprocess_loop(new_file_lines, lines, joinFlag) ==
    IF Len(lines) = 0 THEN new_file_lines
    ELSE preprocess_loop(preprocess_line(new_file_lines, Head(lines), joinFlag),
                         Tail(lines), joinFlag)

split_file_lines(file_lines) ==
    IF file_lines # None THEN split(strip(file_lines.v, Whitespace), "\n")
    ELSE <<>>

preprocess_file_lines(file_lines, joinFlag) ==
    preprocess_loop(<<>>, split_file_lines(file_lines), joinFlag)

----------------------------------------------------------------------------
(* _get_document_metadata                                                  *)

Has(m, k) == k \in DOMAIN m

\* mutant: the last element of a list-valued "Content-Type"
content_type_of_last(m) ==
    IF ~Has(m, "Content-Type") THEN PyExc("KeyError")
    ELSE IF IsList(m["Content-Type"])
         THEN IF Len(m["Content-Type"].v) = 0 THEN PyExc("IndexError")
              ELSE str(m["Content-Type"].v[Len(m["Content-Type"].v)])
         ELSE m["Content-Type"]

\* mutant: metadata.get("Content-Type"), tolerating a missing key
content_type_of_default(m) ==
    IF ~Has(m, "Content-Type") THEN None
    ELSE IF IsList(m["Content-Type"])
         THEN IF Len(m["Content-Type"].v) = 0 THEN PyExc("IndexError")
              ELSE str(m["Content-Type"].v[1])
         ELSE m["Content-Type"]

\* the value of a field, or the exception raised while computing it:
\* metadata["Content-Type"] raises KeyError, [0] on an empty list IndexError
content_type_of(m) ==
    IF ~Has(m, "Content-Type") THEN PyExc("KeyError")
    ELSE IF IsList(m["Content-Type"])
         THEN IF Len(m["Content-Type"].v) = 0 THEN PyExc("IndexError")
              ELSE str(m["Content-Type"].v[1])
         ELSE m["Content-Type"]

\* mutant: "creator" tried before "meta:author"
author_of_swapped(m) ==
    IF Has(m, "Author") THEN m["Author"]
    ELSE IF Has(m, "creator") THEN m["creator"]
    ELSE IF Has(m, "meta:author") THEN m["meta:author"]
    ELSE IF Has(m, "dc:creator") THEN m["dc:creator"]
    ELSE IF Has(m, "pdf:docinfo:creator") THEN m["pdf:docinfo:creator"]
    ELSE IF Has(m, "producer") THEN m["producer"]
    ELSE IF Has(m, "pdf:docinfo:producer") THEN m["pdf:docinfo:producer"]
    ELSE None

author_of(m) ==
    IF Has(m, "Author") THEN m["Author"]
    ELSE IF Has(m, "meta:author") THEN m["meta:author"]
    ELSE IF Has(m, "creator") THEN m["creator"]
    ELSE IF Has(m, "dc:creator") THEN m["dc:creator"]
    ELSE IF Has(m, "pdf:docinfo:creator") THEN m["pdf:docinfo:creator"]
    ELSE IF Has(m, "producer") THEN m["producer"]
    ELSE IF Has(m, "pdf:docinfo:producer") THEN m["pdf:docinfo:producer"]
    ELSE None

\* mutant: "Page-Count" tried before "xmpTPg:NPages"
num_of_pages_of_swapped(m) ==
    IF Has(m, "Page-Count") THEN m["Page-Count"]
    ELSE IF Has(m, "xmpTPg:NPages") THEN m["xmpTPg:NPages"]
    ELSE IF Has(m, "meta:page-count") THEN m["meta:page-count"]
    ELSE PyInt(1)

\* the value first assigned to num_of_pages
num_of_pages_of(m) ==
    IF Has(m, "xmpTPg:NPages") THEN m["xmpTPg:NPages"]
    ELSE IF Has(m, "Page-Count") THEN m["Page-Count"]
    ELSE IF Has(m, "meta:page-count") THEN m["meta:page-count"]
    ELSE PyInt(1)

\* sum([int(num_pages) for num_pages in l]); the comprehension raises at
\* the first element int() rejects
RECURSIVE sum_pages(_)
sum_pages(l) ==
    IF Len(l) = 0 THEN PyInt(0)
    ELSE LET n == int(Head(l))
         IN IF n.t = "exc" THEN n
            ELSE LET rest == sum_pages(Tail(l))
                 IN IF rest.t = "exc" THEN rest ELSE PyInt(n.v + rest.v)

filesize_of(m) == IF Has(m, "filesize") THEN m["filesize"] ELSE None

ocr_parsing_of(m) ==
    IF Has(m, "ocr_parsing") THEN m["ocr_parsing"] ELSE PyBool(FALSE)

\* the value first assigned to creation_date
creation_date_of(m) ==
    IF Has(m, "Creation-Date") THEN m["Creation-Date"]
    ELSE IF Has(m, "meta:creation_date") THEN m["meta:creation_date"]
    ELSE IF Has(m, "created") THEN m["created"]
    ELSE None

first_of(l) == IF Len(l.v) = 0 THEN PyExc("IndexError") ELSE l.v[1]

\* the text handed to detect
detect_text(file_lines) == join(<<" ">>, file_lines)

\* mutant: the handler of LangDetectException leaves lang null
lang_of_none_on_error(m, outcome) ==
    IF outcome.kind = "return" THEN PyStr(outcome.lang) ELSE None

\* the value lang ends with, given what detect did
lang_of(m, outcome) ==
    IF outcome.kind = "return" THEN PyStr(outcome.lang) ELSE PyStr(<<"unk">>)

\* The body of the method runs on a record r = [self, exc, detect_call]; a
\* statement that raises leaves the attributes assigned so far and records
\* the exception, and the statements after it do not run.
SetAttr(r, name, value) == [r EXCEPT !.self[name] = value]
Raise(r, e) == [r EXCEPT !.exc = e.v]
Assign(r, name, value) ==
    IF value.t = "exc" THEN Raise(r, value) ELSE SetAttr(r, name, value)
Then(r, next) == IF r.exc # "none" THEN r ELSE next

set_content_type(r, m) == Assign(r, "content_type", content_type_of(m))

set_author(r, m) == SetAttr(r, "author", author_of(m))

set_num_of_pages(r, m) ==
    LET r1 == SetAttr(r, "num_of_pages", num_of_pages_of(m))
    IN IF IsList(r1.self.num_of_pages)
       THEN Assign(r1, "num_of_pages", sum_pages(r1.self.num_of_pages.v))
       ELSE r1

set_filesize(r, m) == SetAttr(r, "filesize", filesize_of(m))

set_ocr_parsing(r, m) == SetAttr(r, "ocr_parsing", ocr_parsing_of(m))

set_creation_date(r, m) ==
    LET r1 == SetAttr(r, "creation_date", creation_date_of(m))
    IN IF IsList(r1.self.creation_date)
       THEN Assign(r1, "creation_date", first_of(r1.self.creation_date))
       ELSE r1

\* mutant: detect runs only when the map holds no "language" tag
set_lang_keep_tag(r, m, outcome) ==
    IF Has(m, "language") THEN SetAttr(r, "lang", m["language"])
    ELSE SetAttr([r EXCEPT !.detect_call =
                      [arg |-> detect_text(r.self.file_lines),
                       outcome |-> outcome]],
                 "lang", lang_of(m, outcome))

set_lang(r, m, outcome) ==
    LET r1 == IF Has(m, "language") THEN SetAttr(r, "lang", m["language"])
              ELSE r
        r2 == [r1 EXCEPT !.detect_call =
                   [arg |-> detect_text(r1.self.file_lines),
                    outcome |-> outcome]]
    IN SetAttr(r2, "lang", lang_of(m, outcome))

get_document_metadata(r, m, outcome) ==
    IF m = None THEN SetAttr(r, "metadata_error", PyBool(TRUE))
    ELSE LET r1 == set_content_type(r, m)
             r2 == Then(r1, set_author(r1, m))
             r3 == Then(r2, set_num_of_pages(r2, m))
             r4 == Then(r3, set_filesize(r3, m))
             r5 == Then(r4, set_ocr_parsing(r4, m))
             r6 == Then(r5, set_creation_date(r5, m))
         IN Then(r6, set_lang(r6, m, outcome))

----------------------------------------------------------------------------
(* get_metadata_dict                                                       *)

\* getattr(self, name, None)
getattr(obj, name) == IF obj[name] = Unset THEN None ELSE obj[name]

\* the OrderedDict, as the sequence of its (key, value) pairs
get_metadata_dict(obj) ==
    << <<"meta:content-type", getattr(obj, "content_type")>>,
       <<"meta:author", getattr(obj, "author")>>,
       <<"meta:pages", getattr(obj, "num_of_pages")>>,
       <<"meta:lang", getattr(obj, "lang")>>,
       <<"meta:date", getattr(obj, "creation_date")>>,
       <<"meta:filesize", getattr(obj, "filesize")>>,
       <<"meta:ocr", getattr(obj, "ocr_parsing")>> >>

\* d[key]
DictGet(d, key) == d[CHOOSE i \in 1..Len(d) : d[i][1] = key][2]

----------------------------------------------------------------------------
(* Inputs: what the caller, parse_file and detect can hand to the class    *)

AuthorKeys == <<"Author", "meta:author", "creator", "dc:creator",
                "pdf:docinfo:creator", "producer", "pdf:docinfo:producer">>
PageKeys == <<"xmpTPg:NPages", "Page-Count", "meta:page-count">>
DateKeys == <<"Creation-Date", "meta:creation_date", "created">>

Range(f) == {f[i] : i \in DOMAIN f}

AllKeys == {"Content-Type", "filesize", "ocr_parsing", "language"}
               \cup Range(AuthorKeys) \cup Range(PageKeys) \cup Range(DateKeys)

ContentTypeValues ==
    {PyStr(<<"text/plain">>),
     PyList(<<PyStr(<<"application/pdf">>), PyStr(<<"text/plain">>)>>),
     PyList(<<PyInt(7)>>),
     PyList(<<>>)}

PageValues ==
    {PyStr(<<"5">>),
     PyInt(3),
     PyList(<<PyStr(<<"1", "2">>), PyInt(3)>>),
     PyList(<<PyStr(<<"-", "4">>)>>),
     PyList(<<PyStr(<<"x">>)>>),
     PyList(<<>>)}

DateValues ==
    {PyStr(<<"2020-01-01">>), PyList(<<PyStr(<<"2019-05-05">>)>>)}

LanguageTags == {PyStr(<<"fr">>), PyStr(<<"en">>)}

AuthorValue(k) ==
    IF k = "meta:author" THEN PyStr(<<"Jane", " ", "Doe">>)
    ELSE PyStr(<<"by", " ", k>>)

ValuesOf(k) ==
    IF k = "Content-Type" THEN ContentTypeValues
    ELSE IF k \in Range(PageKeys) THEN PageValues
    ELSE IF k \in Range(DateKeys) THEN DateValues
    ELSE IF k = "language" THEN LanguageTags
    ELSE IF k = "filesize" THEN {PyInt(2048)}
    ELSE IF k = "ocr_parsing" THEN {PyBool(TRUE)}
    ELSE {AuthorValue(k)}

\* the maps with the keys K
RECURSIVE MapsOver(_)
MapsOver(K) ==
    IF K = {} THEN {<<>>}
    ELSE LET k == CHOOSE x \in K : TRUE
         IN {m @@ (k :> v) : m \in MapsOver(K \ {k}), v \in ValuesOf(k)}

KeySets(K, n) == {S \in SUBSET K : Cardinality(S) <= n}

\* the maps parse_file can return: "Content-Type" or not, and at most MaxKeys
\* of the other keys
MetadataMaps ==
    UNION {MapsOver(K \cup C) :
               K \in KeySets(AllKeys \ {"Content-Type"}, MaxKeys),
               C \in {{}, {"Content-Type"}}}

TextAtoms == {"Hello.", "World.", " ", "\n"}

RECURSIVE SeqsUpTo(_, _)
SeqsUpTo(A, n) ==
    IF n = 0 THEN {<<>>}
    ELSE SeqsUpTo(A, n - 1)
             \cup {Append(s, a) : s \in SeqsUpTo(A, n - 1), a \in A}

RawTexts == {None} \cup {PyStr(s) : s \in SeqsUpTo(TextAtoms, MaxLen)}

HelloWorld == PyStr(<<"Hello.", "\n", "\n", "World.">>)

ParsedTexts == {None, PyStr(<<>>), HelloWorld}

Paths == {PyStr(<<"doc.pdf">>)}

ParseErrors == {"ReadTimeout", "OSError"}

ParseOutcomes ==
    {[kind |-> "raise", exc |-> e] : e \in ParseErrors}
        \cup {[kind |-> "return", text |-> t, metadata |-> m] :
                  t \in ParsedTexts, m \in {None} \cup MetadataMaps}

DetectOutcomes ==
    {[kind |-> "return", lang |-> <<"en">>],
     [kind |-> "raise", exc |-> "LangDetectException"]}

----------------------------------------------------------------------------
(* __init__                                                                *)

\* mutant: the handler substitutes an empty map for the metadata
parse_or_substitute_empty_map(outcome) ==
    IF outcome.kind = "return"
    THEN [file_lines |-> outcome.text, metadata |-> outcome.metadata]
    ELSE [file_lines |-> PyStr(<<>>), metadata |-> <<>>]

\* try: file_lines, metadata = parse_file(document_path)
\* except Exception: file_lines = ""; metadata = None
parse_or_substitute(outcome) ==
    IF outcome.kind = "return"
    THEN [file_lines |-> outcome.text, metadata |-> outcome.metadata]
    ELSE [file_lines |-> PyStr(<<>>), metadata |-> None]

NewObject ==
    [content_type |-> Unset, author |-> Unset, num_of_pages |-> Unset,
     lang |-> Unset, creation_date |-> Unset, filesize |-> Unset,
     ocr_parsing |-> Unset, metadata_error |-> Unset, file_lines |-> Unset,
     document_path |-> Unset]

init(obj, path, splitFlag, outcome, detectOutcome) ==
    LET local == parse_or_substitute(outcome)
        r0 == [self |-> [obj EXCEPT !.file_lines =
                   preprocess_file_lines(local.file_lines, splitFlag)],
               exc |-> "none", detect_call |-> Unset]
        r1 == get_document_metadata(r0, local.metadata, detectOutcome)
    IN Then(r1, SetAttr(r1, "document_path", path))

Init ==
    /\ pc = "new"
    /\ exc = "none"
    /\ document_path = Unset
    /\ split_lines = Unset
    /\ parse_outcome = Unset
    /\ raw_file_lines = Unset
    /\ join_lines = Unset
    /\ metadata = Unset
    /\ detect_call = Unset
    /\ self = NewObject

\* FARO_Document(path, splitFlag)
Construct ==
    /\ pc = "new"
    /\ \E path \in Paths, splitFlag \in BOOLEAN, outcome \in ParseOutcomes,
          detectOutcome \in DetectOutcomes :
           LET r == init(self, path, splitFlag, outcome, detectOutcome)
           IN /\ pc' = IF r.exc = "none" THEN "done" ELSE "raised"
              /\ exc' = r.exc
              /\ document_path' = path
              /\ split_lines' = splitFlag
              /\ parse_outcome' = outcome
              /\ raw_file_lines' = parse_or_substitute(outcome).file_lines
              /\ join_lines' = splitFlag
              /\ metadata' = parse_or_substitute(outcome).metadata
              /\ detect_call' = r.detect_call
              /\ self' = r.self

Next == Construct

Spec == Init /\ [][Next]_vars

\* self._preprocess_file_lines(text, joinFlag), called on its own
Preprocess ==
    /\ pc = "new"
    /\ \E text \in RawTexts, joinFlag \in BOOLEAN :
        /\ pc' = "preprocessed"
        /\ raw_file_lines' = text
        /\ join_lines' = joinFlag
        /\ self' = [self EXCEPT !.file_lines =
                        preprocess_file_lines(text, joinFlag)]
        /\ UNCHANGED <<exc, document_path, split_lines, parse_outcome,
                       metadata, detect_call>>

NextPre == Preprocess

SpecPre == Init /\ [][NextPre]_vars

----------------------------------------------------------------------------
(* Properties                                                              *)

Constructed == pc \in {"done", "raised"}
Completed == pc = "done"
MetadataIsMap == Constructed /\ metadata # None
Meta(key) == DictGet(get_metadata_dict(self), key)
Unk == PyStr(<<"unk">>)
JaneDoe == PyStr(<<"Jane", " ", "Doe">>)

\* the index of the first alias of keys that m holds, 0 when it holds none
FirstPresent(m, keys) ==
    IF \A i \in 1..Len(keys) : ~Has(m, keys[i]) THEN 0
    ELSE CHOOSE i \in 1..Len(keys) :
             Has(m, keys[i]) /\ \A j \in 1..(i - 1) : ~Has(m, keys[j])

RECURSIVE SumOfParsed(_, _)
SumOfParsed(l, n) ==
    IF n = 0 THEN 0 ELSE SumOfParsed(l, n - 1) + int(l[n]).v

\* C1: for every Document whose construction completes, meta:pages is a
\* non-negative integer, never null and never a string.
C1_PagesNonNegativeInteger ==
    Completed => /\ Meta("meta:pages").t = "int"
                 /\ Meta("meta:pages").v >= 0

AllNull ==
    << <<"meta:content-type", None>>, <<"meta:author", None>>,
       <<"meta:pages", None>>, <<"meta:lang", None>>, <<"meta:date", None>>,
       <<"meta:filesize", None>>, <<"meta:ocr", None>> >>

\* C3: when the map reaching field resolution is null (returned null, or
\* substituted with empty text because parse_file raised), construction
\* completes without raising, metadata_error is set and get_metadata_dict
\* returns the seven fields as null.
C3_NullMetadata ==
    Constructed =>
        /\ parse_outcome.kind = "raise" =>
               metadata = None /\ raw_file_lines = PyStr(<<>>)
        /\ metadata = None =>
               /\ pc = "done"
               /\ exc = "none"
               /\ self.metadata_error = PyBool(TRUE)
               /\ get_metadata_dict(self) = AllNull

C3_Witness ==
    /\ Completed
    /\ parse_outcome.kind = "raise"
    /\ self.metadata_error = PyBool(TRUE)
    /\ get_metadata_dict(self) = AllNull

\* C4: with join_lines false and the identity as clean(), the raw text
\* "Hello.\n\nWorld." yields exactly the two units "Hello." and "World.".
C4_HelloWorldUnits ==
    (pc = "preprocessed" /\ join_lines = FALSE /\ raw_file_lines = HelloWorld)
        => self.file_lines = << <<"Hello.">>, <<"World.">> >>

\* C5: with join_lines true, a raw text of n >= 1 lines yields one merged
\* text, its cleaned lines joined by single spaces, not n entries.
C5_MergedIntoOne ==
    (pc = "preprocessed" /\ join_lines = TRUE /\ raw_file_lines # None)
        => self.file_lines =
               << join(<<" ">>, split_file_lines(raw_file_lines)) >>

\* C6: for a non-null map the page count comes from the first alias present
\* in the order xmpTPg:NPages, Page-Count, meta:page-count; a list value is
\* replaced by the sum of its integer-parsed elements; with no alias it is 1.
C6_PageCount ==
    (Completed /\ metadata # None) =>
        LET i == FirstPresent(metadata, PageKeys)
        IN IF i = 0 THEN self.num_of_pages = PyInt(1)
           ELSE IF IsList(metadata[PageKeys[i]])
           THEN self.num_of_pages =
                    PyInt(SumOfParsed(metadata[PageKeys[i]].v,
                                      Len(metadata[PageKeys[i]].v)))
           ELSE self.num_of_pages = metadata[PageKeys[i]]

C6_Witness ==
    /\ Completed
    /\ metadata # None
    /\ Has(metadata, "xmpTPg:NPages")
    /\ Has(metadata, "Page-Count")
    /\ metadata["xmpTPg:NPages"] = PyList(<<PyStr(<<"1", "2">>), PyInt(3)>>)
    /\ metadata["Page-Count"] = PyInt(3)
    /\ self.num_of_pages = PyInt(15)

\* C7: for a non-null map the author is the value of the first key present
\* in the order of AuthorKeys, whatever later aliases are present, and null
\* when none is; with "Author" absent and "meta:author" = "Jane Doe" it is
\* "Jane Doe".
C7_Author ==
    (MetadataIsMap /\ self.content_type # Unset) =>
        LET i == FirstPresent(metadata, AuthorKeys)
        IN /\ self.author = IF i = 0 THEN None ELSE metadata[AuthorKeys[i]]
           /\ (~Has(metadata, "Author") /\ Has(metadata, "meta:author")
                   /\ metadata["meta:author"] = JaneDoe)
                  => self.author = JaneDoe

C7_Witness ==
    /\ Completed
    /\ metadata # None
    /\ ~Has(metadata, "Author")
    /\ Has(metadata, "meta:author")
    /\ Has(metadata, "creator")
    /\ self.author = JaneDoe

\* C8: for a non-null map with a "language" tag, the language is what detect
\* returned for the space-joined preprocessed lines, not the tag, and "unk"
\* when detect raised LangDetectException, which never leaves the
\* constructor.
C8_DetectedLanguageOverridesTag ==
    (MetadataIsMap /\ Has(metadata, "language")) =>
        /\ exc # "LangDetectException"
        /\ Completed =>
               /\ detect_call # Unset
               /\ detect_call.arg = join(<<" ">>, self.file_lines)
               /\ detect_call.outcome.kind = "return"
                      => self.lang = PyStr(detect_call.outcome.lang)
               /\ detect_call.outcome.kind = "raise" => self.lang = Unk

C8_Witness ==
    /\ Completed
    /\ metadata # None
    /\ Has(metadata, "language")
    /\ metadata["language"] = PyStr(<<"fr">>)
    /\ raw_file_lines = HelloWorld
    /\ detect_call.outcome.kind = "return"
    /\ self.lang = PyStr(<<"en">>)

C10_MissingContentTypeRaises ==
    MetadataIsMap =>
        /\ ~Has(metadata, "Content-Type") =>
               /\ pc = "raised"
               /\ exc = "KeyError"
               /\ \A a \in {"content_type", "author", "num_of_pages", "lang",
                            "creation_date", "filesize", "ocr_parsing",
                            "metadata_error", "document_path"} :
                      self[a] = Unset
        /\ (DOMAIN metadata = {"Content-Type"}
                /\ ~IsList(metadata["Content-Type"])) =>
               /\ pc = "done"
               /\ self.author = None
               /\ self.num_of_pages = PyInt(1)
               /\ self.filesize = None
               /\ self.ocr_parsing = PyBool(FALSE)
               /\ self.creation_date = None

C10_Witness ==
    /\ pc = "raised"
    /\ exc = "KeyError"
    /\ metadata # None
    /\ Has(metadata, "Author")
    /\ Has(metadata, "xmpTPg:NPages")
    /\ self.author = Unset
    /\ self.document_path = Unset

====
